---- MODULE Spec2Model ----
(***************************************************************************)
(* A model of gettext-handlebars (src/index.js): the Parser constructor    *)
(* that normalises a keyword specification, Parser.prototype.parse that    *)
(* walks a Handlebars syntax tree and collects message records, and        *)
(* Parser.prototype.parseFilesGlob that merges the records of many files.  *)
(*                                                                         *)
(* JavaScript values are modelled as follows.                              *)
(*   - a string is a TLA+ string where it is only used as a property key   *)
(*     or a name (helper names, role names), and a sequence of character   *)
(*     codes where the program concatenates or compares it (message ids,   *)
(*     contexts, plurals, file names, references);                         *)
(*   - an optional value (undefined / null / a missing argument) is a      *)
(*     sequence of length 0 or 1: <<>> is absent, <<v>> is the value v;    *)
(*   - an object is a function from its own property names to values.      *)
(***************************************************************************)
EXTENDS Integers, Sequences, FiniteSets, TLC

VARIABLES
  \* ---- new Parser(keywordSpec) ----
  arg,              \* the caller's keywordSpec object (optional), as it is now
  argBefore,        \* the same object as it was when the constructor was called
  thisKeywordSpec,  \* this.keywordSpec (optional)
  ctorState,        \* "new" | "constructed" | "threw"
  \* ---- parser.parse(template) ----
  parserSpec,       \* this.keywordSpec of the parser whose parse is called
  template,         \* the template, as the tree Handlebars.parse makes of it
  parseState,       \* "ready" | "returned" | "threw"
  returned,         \* the mapping parse returned
  error,            \* the error parse threw (optional)
  \* ---- parser.parseFilesGlob(pattern, options, cb) ----
  disk,             \* the files of the file system: file name -> template
  globState,        \* "called" | "mapping" | "done"
  globFailed,       \* glob passed an error to its callback
  matched,          \* the files glob passed, in its order
  pending,          \* the files files.map has yet to visit
  readFiles,        \* the files read so far, in order
  messages,         \* the object `messages`: msgid -> PO item
  calls,            \* the invocations of cb so far, each [er, result]
  thrown            \* the error thrown out of glob's callback (optional)

ctorVars == <<arg, argBefore, thisKeywordSpec, ctorState>>
parseVars == <<parserSpec, template, parseState, returned, error>>
globVars == <<disk, globState, globFailed, matched, pending, readFiles, messages,
              calls, thrown>>
vars == <<ctorVars, parseVars, globVars>>

----------------------------------------------------------------------------
(* Bounds of the constructor's inputs *)

\* largest argument position a raw specification names
MaxPos == 1
\* longest legacy array a raw specification holds
MaxLen == 2

(* helper names of the raw specifications that are enumerated *)
Keywords == {"_", "ngettext"}

----------------------------------------------------------------------------
(* JavaScript values of a raw keyword specification *)

Str(s) == [t |-> "string", s |-> s, n |-> 0]
Num(n) == [t |-> "number", s |-> "", n |-> n]
Undefined == [t |-> "undefined", s |-> "", n |-> 0]
\* an index of a sparse array that holds no element: [ , 'msgid']
Hole == [t |-> "hole", s |-> "", n |-> 0]

NoProps == [k \in {} |-> Undefined]
Obj(props) == [kind |-> "object", props |-> props, elems |-> <<>>]
Arr(elems) == [kind |-> "array", props |-> NoProps, elems |-> elems]

\* String(n) of a small non-negative integer
DecimalDigits == <<"0", "1", "2", "3", "4", "5", "6", "7", "8", "9">>

\* the property key `result[key]` stores under
ToPropertyKey(v) ==
  CASE v.t = "string" -> v.s
    [] v.t = "number" -> DecimalDigits[v.n + 1]
    [] OTHER -> "undefined"

\* 'msgid' in positions: an own property of an object; never an index of an array
HasMsgid(positions) ==
  positions.kind = "object" /\ "msgid" \in DOMAIN positions.props

\* positions.indexOf('msgid') >= 0
IndexOfMsgid(positions) ==
  \E i \in 1..Len(positions.elems) : positions.elems[i] = Str("msgid")

\* Array.prototype.reduce(callback, {}) skips the holes of a sparse array;
\* idx is the zero-based index of the element
RECURSIVE ReduceNames(_, _, _)
ReduceNames(elems, i, result) ==
  IF i > Len(elems) THEN result
  ELSE IF elems[i] = Hole THEN ReduceNames(elems, i + 1, result)
  ELSE LET key == ToPropertyKey(elems[i])
           next == [k \in DOMAIN result \cup {key} |->
                      IF k = key THEN Num(i - 1) ELSE result[k]]
       IN ReduceNames(elems, i + 1, next)

\* var order = ['msgid', 'msgid_plural']; order[idx] is undefined past it
Order(idx) ==
  CASE idx = 0 -> "msgid"
    [] idx = 1 -> "msgid_plural"
    [] OTHER -> "undefined"

\* mutant: stores the index where the code stores the array's value
RECURSIVE ReducePositionsIdx(_, _, _)
ReducePositionsIdx(elems, i, result) ==
  IF i > Len(elems) THEN result
  ELSE IF elems[i] = Hole THEN ReducePositionsIdx(elems, i + 1, result)
  ELSE LET key == Order(i - 1)
           next == [k \in DOMAIN result \cup {key} |->
                      IF k = key THEN Num(i - 1) ELSE result[k]]
       IN ReducePositionsIdx(elems, i + 1, next)

RECURSIVE ReducePositions(_, _, _)
ReducePositions(elems, i, result) ==
  IF i > Len(elems) THEN result
  ELSE IF elems[i] = Hole THEN ReducePositions(elems, i + 1, result)
  ELSE LET key == Order(i - 1)
           next == [k \in DOMAIN result \cup {key} |->
                      IF k = key THEN elems[i] ELSE result[k]]
       IN ReducePositions(elems, i + 1, next)

\* the body of the first forEach: the value keywordSpec[keyword] holds after it
Normalize(positions) ==
  IF HasMsgid(positions) THEN positions
  ELSE IF positions.kind = "array" /\ IndexOfMsgid(positions)
    THEN Obj(ReduceNames(positions.elems, 1, NoProps))
  ELSE IF positions.kind = "array" /\ Len(positions.elems) > 0
    THEN Obj(ReducePositions(positions.elems, 1, NoProps))
  ELSE positions

\* default keywords, copied from GNU xgettext's JavaScript keywords
Parser_keywordSpec ==
  [kw \in {"_", "gettext", "dgettext", "dcgettext", "ngettext", "dngettext",
           "pgettext", "dpgettext"} |->
    CASE kw = "_"         -> [r \in {"msgid"} |-> 0]
      [] kw = "gettext"   -> [r \in {"msgid"} |-> 0]
      [] kw = "dgettext"  -> [r \in {"msgid"} |-> 1]
      [] kw = "dcgettext" -> [r \in {"msgid"} |-> 1]
      [] kw = "ngettext"  -> [r \in {"msgid", "msgid_plural"} |->
                               IF r = "msgid" THEN 0 ELSE 1]
      [] kw = "dngettext" -> [r \in {"msgid", "msgid_plural"} |->
                               IF r = "msgid" THEN 1 ELSE 2]
      [] kw = "pgettext"  -> [r \in {"msgctxt", "msgid"} |->
                               IF r = "msgctxt" THEN 0 ELSE 1]
      [] kw = "dpgettext" -> [r \in {"msgctxt", "msgid"} |->
                               IF r = "msgctxt" THEN 1 ELSE 2]]

\* a specification whose positions are plain numbers, as a JavaScript object
AsObject(spec) ==
  [kw \in DOMAIN spec |-> Obj([r \in DOMAIN spec[kw] |-> Num(spec[kw][r])])]

----------------------------------------------------------------------------
(* The raw specifications a caller passes *)

Roles == {"msgid", "msgid_plural", "msgctxt"}

RECURSIVE SeqsUpTo(_, _)
SeqsUpTo(S, n) ==
  IF n = 0 THEN {<<>>}
  ELSE LET shorter == SeqsUpTo(S, n - 1)
       IN shorter \cup {Append(s, x) : s \in {t \in shorter : Len(t) = n - 1}, x \in S}

\* what a legacy array holds: role names, the name of an argument that is no
\* role (dgettext: ['domain', 'msgid']), holes, positions
Elements ==
  {Str(r) : r \in Roles} \cup {Str("domain"), Hole} \cup {Num(p) : p \in 0..MaxPos}

RoleMaps ==
  UNION {[rs -> {Num(p) : p \in 0..MaxPos}] : rs \in SUBSET Roles}

RawValues ==
  {Obj(m) : m \in RoleMaps} \cup {Arr(e) : e \in SeqsUpTo(Elements, MaxLen)}

----------------------------------------------------------------------------
(* function Parser (keywordSpec) *)

CtorIdle ==
  /\ arg = <<>>
  /\ argBefore = <<>>
  /\ thisKeywordSpec = <<>>
  /\ ctorState = "idle"

InitCtor ==
  /\ arg \in {<<>>} \cup {<<spec>> : spec \in [Keywords -> RawValues]}
  /\ argBefore = arg
  /\ thisKeywordSpec = <<>>
  /\ ctorState = "new"

\* The whole constructor: both forEach loops and the final assignment.  The
\* first loop assigns into the object the caller passed; the second throws at
\* the first keyword without a msgid, after the first loop has run.
Parser ==
  /\ ctorState = "new"
  /\ LET keywordSpec == IF arg = <<>> THEN AsObject(Parser_keywordSpec) ELSE arg[1]
         normalized == [kw \in DOMAIN keywordSpec |-> Normalize(keywordSpec[kw])]
     IN /\ arg' = IF arg = <<>> THEN arg ELSE <<normalized>>
        /\ IF \E kw \in DOMAIN normalized : ~HasMsgid(normalized[kw])
             THEN /\ ctorState' = "threw"
                  /\ thisKeywordSpec' = thisKeywordSpec
             ELSE /\ ctorState' = "constructed"
                  /\ thisKeywordSpec' = <<normalized>>
  /\ UNCHANGED argBefore
  /\ UNCHANGED <<parseVars, globVars>>

----------------------------------------------------------------------------
(* Strings the program concatenates or compares: sequences of character codes *)

EmptyStr == <<>>
StrA == <<65>>
StrB == <<66>>
\* a path expression's text, `n`
StrN == <<110>>
\* String(undefined), what `.original` of a node without one turns into in a key
StrUndefined == <<117, 110, 100, 101, 102, 105, 110, 101, 100>>

Texts == {EmptyStr, StrA}

\* Same as what Jed.js uses: String.fromCharCode(4)
Parser_contextDelimiter == <<4>>

\* msgctxt is optional: <<>> is null.  `msgctxt ?` is false for null and for ''
Parser_messageToKey(msgid, msgctxt) ==
  IF msgctxt # <<>> /\ msgctxt[1] # EmptyStr
    THEN msgctxt[1] \o Parser_contextDelimiter \o msgid
    ELSE msgid

----------------------------------------------------------------------------
(* The syntax tree Handlebars.parse returns *)

InvocationTypes == {"MustacheStatement", "SubExpression"}
BlockTypes == {"BlockStatement", "PartialBlockStatement"}

\* A node: path is path.original, hash holds the values of hash.pairs, program
\* and inverse are optional statement lists, line is loc.start.line.
Node(type, path, params, hash, program, inverse, original) ==
  [type |-> type, path |-> path, params |-> params, hash |-> hash,
   program |-> program, inverse |-> inverse, original |-> original, line |-> 0]

StringLiteral(text) == Node("StringLiteral", "", <<>>, <<>>, <<>>, <<>>, text)
PathExpression(text) == Node("PathExpression", "", <<>>, <<>>, <<>>, <<>>, text)
\* text between the mustaches; its value may hold line feeds
ContentStatement(text) == Node("ContentStatement", "", <<>>, <<>>, <<>>, <<>>, text)
Mustache(path, params, hash) ==
  Node("MustacheStatement", path, params, hash, <<>>, <<>>, EmptyStr)
SubExpression(path, params, hash) ==
  Node("SubExpression", path, params, hash, <<>>, <<>>, EmptyStr)
Block(type, path, params, hash, program, inverse) ==
  Node(type, path, params, hash, program, inverse, EmptyStr)

\* the line feeds of a text
LineFeeds(text) == Cardinality({i \in DOMAIN text : text[i] = 10})

\* Handlebars.parse(template): the text is the tree without its locations,
\* and parsing gives every node its loc.start.line.  Every invocation starts on
\* a line of its own, in the order of the source text: a mustache, then its
\* params, then its hash, then (a block) its program, then its inverse; the
\* line feeds of a content statement are lines without an invocation.
RECURSIVE LocateNode(_, _), LocateSeq(_, _)
LocateSeq(nodes, line) ==
  IF nodes = <<>> THEN [out |-> <<>>, next |-> line]
  ELSE LET h == LocateNode(Head(nodes), line)
           t == LocateSeq(Tail(nodes), h.next)
       IN [out |-> <<h.out>> \o t.out, next |-> t.next]

LocateOptional(body, line) ==
  IF body = <<>> THEN [out |-> <<>>, next |-> line]
  ELSE LET b == LocateSeq(body[1], line)
       IN [out |-> <<b.out>>, next |-> b.next]

LocateNode(node, line) ==
  IF node.type \in InvocationTypes \cup BlockTypes
    THEN LET ps == LocateSeq(node.params, line + 1)
             hs == LocateSeq(node.hash, ps.next)
             pr == LocateOptional(node.program, hs.next)
             iv == LocateOptional(node.inverse, pr.next)
         IN [out |-> [node EXCEPT !.line = line, !.params = ps.out, !.hash = hs.out,
                                  !.program = pr.out, !.inverse = iv.out],
             next |-> iv.next]
    ELSE [out |-> [node EXCEPT !.line = IF line > 1 THEN line - 1 ELSE 1],
          next |-> line + LineFeeds(node.original)]

\* tree.body
HandlebarsParse(text) == LocateSeq(text, 1).out

----------------------------------------------------------------------------
(* Parser.prototype.parse *)

NoError == <<>>
\* throw new Error(message + msgid ...)
Thrown(message, msgid) == <<[message |-> message, msgid |-> msgid]>>

NoFields == [p \in {} |-> EmptyStr]
NoRecords == [k \in {} |-> [line |-> <<>>, props |-> NoFields]]
\* the accumulator `msgs`: rec maps a key to its record, keys lists the keys in
\* the order they were first stored (the order Object.keys gives for keys that
\* are not array indices); err is the error thrown, if any
NoMsgs == [err |-> NoError, keys |-> <<>>, rec |-> NoRecords]

\* params[index]: undefined past the end
Param(params, index) == IF index < Len(params) THEN <<params[index + 1]>> ELSE <<>>

\* param.original, as a string: a sub-expression has none
OriginalOf(node) ==
  IF node.type \in {"StringLiteral", "PathExpression"} THEN node.original
  ELSE StrUndefined

\* mutant: a helper with a msgctxt role and no argument there gets the null context
ResolveContextLenient(spec, params, msgid) ==
  IF "msgctxt" \notin DOMAIN spec \/ Param(params, spec["msgctxt"]) = <<>>
    THEN [err |-> NoError, context |-> <<>>]
  ELSE IF Param(params, spec["msgctxt"])[1].type # "StringLiteral"
    THEN [err |-> Thrown("Context must be a string literal", msgid), context |-> <<>>]
  ELSE [err |-> NoError, context |-> <<Param(params, spec["msgctxt"])[1].original>>]

\* var context = null ... context = contextParam.original
ResolveContext(spec, params, msgid) ==
  IF "msgctxt" \notin DOMAIN spec THEN [err |-> NoError, context |-> <<>>]
  ELSE LET contextParam == Param(params, spec["msgctxt"])
       IN IF contextParam = <<>>
            THEN [err |-> Thrown("No context specified", msgid), context |-> <<>>]
          ELSE IF contextParam[1].type # "StringLiteral"
            THEN [err |-> Thrown("Context must be a string literal", msgid),
                  context |-> <<>>]
          ELSE [err |-> NoError, context |-> <<contextParam[1].original>>]

\* make sure plural forms match; existingPlural is msgs[key].msgid_plural
CheckPlural(spec, params, msgid, existingPlural) ==
  IF "msgid_plural" \notin DOMAIN spec THEN NoError
  ELSE LET pluralParam == Param(params, spec["msgid_plural"])
       IN IF pluralParam = <<>> THEN Thrown("No plural specified", msgid)
          ELSE IF pluralParam[1].type # "StringLiteral"
            THEN Thrown("Plural must be a string literal", msgid)
          ELSE LET plural == pluralParam[1].original
               IN IF /\ plural # EmptyStr
                     /\ existingPlural # <<>>
                     /\ existingPlural[1] # EmptyStr
                     /\ existingPlural[1] # plural
                    THEN Thrown("Incompatible plural definitions", msgid)
                    ELSE NoError

\* Object.keys(spec).forEach(...) and `msgs[key].plural = msgs[key].msgid_plural`:
\* every role whose argument is a string literal is copied onto the record; a
\* plural that is undefined is modelled as no plural property
CopyProps(old, spec, params) ==
  LET literal == {prop \in DOMAIN spec :
                    /\ Param(params, spec[prop]) # <<>>
                    /\ Param(params, spec[prop])[1].type = "StringLiteral"}
      copied == [p \in DOMAIN old \cup literal |->
                   IF p \in literal THEN Param(params, spec[p])[1].original ELSE old[p]]
  IN IF "msgid_plural" \in DOMAIN copied
       THEN [p \in DOMAIN copied \cup {"plural"} |->
               IF p = "plural" THEN copied["msgid_plural"] ELSE copied[p]]
       ELSE copied

\* case 'MustacheStatement': case 'SubExpression': of isMsg
Extract(keywordSpec, msgs, statement) ==
  IF statement.path \notin DOMAIN keywordSpec THEN msgs
  ELSE
    LET spec == keywordSpec[statement.path]
        params == statement.params
        msgidParam == Param(params, spec["msgid"])
    IN
    IF msgidParam = <<>> THEN msgs  \* don't extract {{gettext}} without param
    ELSE
      LET msgid == OriginalOf(msgidParam[1])
          ctx == ResolveContext(spec, params, msgid)
      IN
      IF ctx.err # NoError THEN [msgs EXCEPT !.err = ctx.err]
      ELSE
        LET key == Parser_messageToKey(msgid, ctx.context)
            old == IF key \in DOMAIN msgs.rec THEN msgs.rec[key]
                   ELSE [line |-> <<>>, props |-> NoFields]
            existingPlural == IF "msgid_plural" \in DOMAIN old.props
                                THEN <<old.props["msgid_plural"]>> ELSE <<>>
            pluralErr == CheckPlural(spec, params, msgid, existingPlural)
        IN
        IF pluralErr # NoError THEN [msgs EXCEPT !.err = pluralErr]
        ELSE
          LET new == [line |-> Append(old.line, statement.line),
                      props |-> CopyProps(old.props, spec, params)]
          IN [err |-> NoError,
              keys |-> IF key \in DOMAIN msgs.rec THEN msgs.keys
                       ELSE Append(msgs.keys, key),
              rec |-> [k \in DOMAIN msgs.rec \cup {key} |->
                         IF k = key THEN new ELSE msgs.rec[k]]]

\* mutant: the values of the hash are not walked
NoHashValues(statement) == <<>>

\* statement.hash.pairs, each pair's value
HashValues(statement) == statement.hash

\* isMsg is the reducer; Reduce is nodes.reduce(isMsg, msgs), which a throw leaves
RECURSIVE isMsg(_, _, _), Reduce(_, _, _, _)
Reduce(keywordSpec, msgs, nodes, i) ==
  IF msgs.err # NoError \/ i > Len(nodes) THEN msgs
  ELSE Reduce(keywordSpec, isMsg(keywordSpec, msgs, nodes[i]), nodes, i + 1)

isMsg(keywordSpec, msgs, statement) ==
  LET switched ==
        IF statement.type \in InvocationTypes
          THEN Extract(keywordSpec, msgs, statement)
        ELSE IF statement.type \in BlockTypes
          THEN LET program == IF statement.program # <<>>
                                THEN Reduce(keywordSpec, msgs, statement.program[1], 1)
                                ELSE msgs
               IN IF statement.inverse # <<>>
                    THEN Reduce(keywordSpec, program, statement.inverse[1], 1)
                    ELSE program
        ELSE msgs
      \* subexpressions as params
      params == Reduce(keywordSpec, switched, statement.params, 1)
  \* subexpressions as hash
  IN Reduce(keywordSpec, params, HashValues(statement), 1)

\* return tree.body.reduce(isMsg, {})
Parser_parse(keywordSpec, text) ==
  Reduce(keywordSpec, NoMsgs, HandlebarsParse(text), 1)

----------------------------------------------------------------------------
(* The parsers and the templates that are enumerated *)

\* longest statement list of a template built from Statements
MaxBody == 2
\* longest statement list of a template built from PluralStatements
MaxRepeat == 3

\* a caller's specification whose context follows the message id
CustomKeywordSpec ==
  [kw \in {"gettext", "ngettext", "pgettext"} |->
    CASE kw = "gettext"  -> [r \in {"msgid"} |-> 0]
      [] kw = "ngettext" -> [r \in {"msgid", "msgid_plural"} |->
                              IF r = "msgid" THEN 0 ELSE 1]
      [] kw = "pgettext" -> [r \in {"msgid", "msgctxt"} |->
                              IF r = "msgid" THEN 0 ELSE 1]]

KeywordSpecs == {Parser_keywordSpec, CustomKeywordSpec}

Literals == {StringLiteral(t) : t \in Texts}

\* the number of arguments the default specification reads of a helper
Arity(helper) ==
  LET spec == Parser_keywordSpec[helper]
  IN 1 + CHOOSE p \in {spec[r] : r \in DOMAIN spec} :
           \A r \in DOMAIN spec : spec[r] <= p

\* {{helper arg ...}} with string literals, up to the helper's arguments, or
\* with a path expression where a literal is expected
FlatStatements ==
  {Mustache(h, ps, <<>>) : h \in {"gettext"}, ps \in SeqsUpTo(Literals, Arity("gettext"))}
  \cup {Mustache(h, ps, <<>>) :
          h \in {"ngettext", "pgettext"}, ps \in SeqsUpTo(Literals, Arity("ngettext"))}
  \cup {Mustache("gettext", <<PathExpression(StrN)>>, <<>>),
        Mustache("ngettext", <<StringLiteral(StrA), PathExpression(StrN)>>, <<>>),
        Mustache("pgettext", <<PathExpression(StrN), StringLiteral(StrA)>>, <<>>),
        Mustache("someOtherHelper", <<>>, <<>>),
        ContentStatement(EmptyStr)}

\* (gettext "A")
Nested == SubExpression("gettext", <<StringLiteral(StrA)>>, <<>>)
\* {{gettext "A"}}
Inner == Mustache("gettext", <<StringLiteral(StrA)>>, <<>>)

\* invocations inside the params, the hash and the bodies of other invocations
NestedStatements ==
  {Mustache(h, ps \o <<Nested>>, <<>>) :
     h \in {"someOtherHelper", "gettext"}, ps \in {<<>>, <<StringLiteral(StrA)>>}}
  \cup {Mustache(h, ps, <<Nested>>) :
          h \in {"someOtherHelper", "gettext"}, ps \in {<<>>, <<StringLiteral(StrA)>>}}
  \cup {Mustache("someOtherHelper",
                 <<SubExpression("someOtherHelper", <<Nested>>, <<>>)>>, <<>>)}
  \cup {Block("BlockStatement", "if", ps, <<>>, pr, iv) :
          ps \in {<<>>, <<Nested>>},
          pr \in {<<>>, << <<Inner>> >>}, iv \in {<<>>, << <<Inner>> >>}}
  \cup {Block("BlockStatement", "if", <<>>, <<Nested>>, << <<Inner>> >>, <<>>)}
  \cup {Block("PartialBlockStatement", "", <<Nested>>, <<>>, << <<Inner>> >>, <<>>)}

Statements == FlatStatements \cup NestedStatements

\* the same message id with and without a plural
PluralStatements ==
  {Inner} \cup {Mustache("ngettext", <<StringLiteral(StrA), StringLiteral(p)>>, <<>>) :
                 p \in Texts \cup {StrB}}

Templates ==
  SeqsUpTo(Statements, MaxBody) \cup SeqsUpTo(PluralStatements, MaxRepeat)

ParseIdle ==
  /\ parserSpec = Parser_keywordSpec
  /\ template = <<>>
  /\ parseState = "idle"
  /\ returned = NoMsgs
  /\ error = NoError

InitParse ==
  /\ parserSpec \in KeywordSpecs
  /\ template \in Templates
  /\ parseState = "ready"
  /\ returned = NoMsgs
  /\ error = NoError

\* One call of parse: it returns the mapping or throws.
Parse ==
  /\ parseState = "ready"
  /\ LET msgs == Parser_parse(parserSpec, template)
     IN IF msgs.err # NoError
          THEN /\ parseState' = "threw"
               /\ error' = msgs.err
               /\ returned' = returned
          ELSE /\ parseState' = "returned"
               /\ returned' = msgs
               /\ error' = error
  /\ UNCHANGED <<parserSpec, template>>
  /\ UNCHANGED <<ctorVars, globVars>>

----------------------------------------------------------------------------
(* The invocations of a template, read off the tree itself *)

Range(seq) == {seq[i] : i \in DOMAIN seq}

OptionalBody(body) == IF body = <<>> THEN {} ELSE Range(body[1])

RECURSIVE NodesOf(_)
NodesOf(node) ==
  {node} \cup UNION {NodesOf(child) :
                      child \in Range(node.params) \cup Range(node.hash)
                                \cup OptionalBody(node.program)
                                \cup OptionalBody(node.inverse)}

\* every mustache and sub-expression of the parsed template; each has a line of
\* its own, so two invocations that look alike are still two nodes
InvocationsIn(text) ==
  {n \in UNION {NodesOf(st) : st \in Range(HandlebarsParse(text))} :
     n.type \in InvocationTypes}

Invocations == InvocationsIn(template)

\* the callee is a helper of the specification
IsCandidate(n) == n.path \in DOMAIN parserSpec

\* the helper has the role and the invocation has an argument at its position
HasArg(n, role) ==
  /\ IsCandidate(n)
  /\ role \in DOMAIN parserSpec[n.path]
  /\ parserSpec[n.path][role] < Len(n.params)

HasRole(n, role) == IsCandidate(n) /\ role \in DOMAIN parserSpec[n.path]

ArgOf(n, role) == n.params[parserSpec[n.path][role] + 1]

\* a matched invocation: a candidate whose msgid argument is present
Matched(n) == HasArg(n, "msgid")

MsgidOf(n) == OriginalOf(ArgOf(n, "msgid"))

\* the context of an invocation: absent when the helper has no msgctxt role
ContextOf(n) ==
  IF HasArg(n, "msgctxt") THEN <<OriginalOf(ArgOf(n, "msgctxt"))>> ELSE <<>>

SuppliesPlural(n) ==
  /\ Matched(n)
  /\ HasArg(n, "msgid_plural")
  /\ ArgOf(n, "msgid_plural").type = "StringLiteral"

\* the invocation's line is in the line sequence of the record stored under key
LandsIn(n, key) ==
  /\ key \in DOMAIN returned.rec
  /\ n.line \in Range(returned.rec[key].line)

----------------------------------------------------------------------------
(* Claims about parse *)

\* C1: two matched invocations land in the same record only if they have the
\* same message id and the same context, an absent context and the context ""
\* being different contexts.
C1_SameRecordOnlyIfSameIdAndContext ==
  parseState = "returned" =>
    \A n1 \in Invocations : \A n2 \in Invocations :
      (/\ Matched(n1) /\ Matched(n2)
       /\ \E key \in DOMAIN returned.rec : LandsIn(n1, key) /\ LandsIn(n2, key))
      => (MsgidOf(n1) = MsgidOf(n2) /\ ContextOf(n1) = ContextOf(n2))

\* C2: when two invocations of one message key supply non-empty plural
\* literals that differ, the call of parse fails, whatever other invocations
\* of the key lie between them.
C2_DifferingPluralsFail ==
  parseState # "ready" =>
    ((\E n1 \in Invocations : \E n2 \in Invocations :
        /\ SuppliesPlural(n1) /\ SuppliesPlural(n2)
        /\ MsgidOf(n1) = MsgidOf(n2) /\ ContextOf(n1) = ContextOf(n2)
        /\ ArgOf(n1, "msgid_plural").original # EmptyStr
        /\ ArgOf(n2, "msgid_plural").original # EmptyStr
        /\ ArgOf(n1, "msgid_plural").original # ArgOf(n2, "msgid_plural").original)
     => parseState = "threw")

\* the helper has a msgctxt role and the invocation no argument at its position
LacksContext(n) == HasRole(n, "msgctxt") /\ ~HasArg(n, "msgctxt")

\* {{pgettext}}
BarePgettext == <<Mustache("pgettext", <<>>, <<>>)>>

\* C3 as stated: an invocation of a helper with a msgctxt role that has no
\* argument at the msgctxt position makes parse fail; {{pgettext}} under the
\* default specification fails.
C3_MissingContextFails ==
  parseState # "ready" =>
    ((\E n \in Invocations : LacksContext(n)) => parseState = "threw")

\* C3 as amended: an invocation of a helper with a msgctxt role whose msgid
\* argument is present and whose msgctxt argument is not makes parse fail; an
\* invocation without its msgid argument is skipped before the context is looked
\* at, so {{pgettext}} under the default specification returns the empty mapping.
C3_MissingContextFailsWhenMsgidPresent ==
  parseState # "ready" =>
    /\ (\E n \in Invocations : Matched(n) /\ LacksContext(n)) => parseState = "threw"
    /\ (template = BarePgettext /\ parserSpec = Parser_keywordSpec)
         => (parseState = "returned" /\ returned.keys = <<>>)

\* a parse that threw "No context specified" at an invocation with a msgid
C3_Witness ==
  /\ parseState = "threw"
  /\ error[1].message = "No context specified"
  /\ \E n \in Invocations : Matched(n) /\ LacksContext(n)

\* C9: each record's line sequence lists the invocations of its key in the
\* order of the source text; lines grow with the source text, so the sequence
\* never steps back.
C9_LinesFollowSourceOrder ==
  parseState = "returned" =>
    \A key \in DOMAIN returned.rec :
      LET line == returned.rec[key].line
      IN \A i \in DOMAIN line : \A j \in DOMAIN line : i < j => line[i] <= line[j]

\* C10: every matched mustache or sub-expression of the tree, wherever it is
\* nested, has its line in a record of the mapping parse returns.
C10_EveryInvocationDiscovered ==
  parseState = "returned" =>
    \A n \in Invocations :
      Matched(n) => LandsIn(n, Parser_messageToKey(MsgidOf(n), ContextOf(n)))

\* {{someOtherHelper (gettext "A")}} parsed: a record for "A"
C10_Witness ==
  /\ parseState = "returned"
  /\ template = <<Mustache("someOtherHelper", <<Nested>>, <<>>)>>
  /\ StrA \in DOMAIN returned.rec
  /\ returned.rec[StrA].line = <<2>>

----------------------------------------------------------------------------
(* Parser.prototype.parseToPoMessages *)

\* String(line): the decimal digits of a line number
RECURSIVE ToDecimal(_)
ToDecimal(n) ==
  IF n < 10 THEN <<48 + n>> ELSE ToDecimal(n \div 10) \o <<48 + (n % 10)>>

\* options.sourcePath + ':' + line
Reference(sourcePath, line) == sourcePath \o <<58>> \o ToDecimal(line)

\* mutant: the PO item is named by the record's msgid, without the context
ItemMsgidBare(key, msgdetails) ==
  IF "msgid" \in DOMAIN msgdetails.props THEN msgdetails.props["msgid"] ELSE key

\* poitem.msgid = msgid, where msgid is a key of the parser's output
ItemMsgid(key, msgdetails) == key

\* one PO item; sourcePath is optional, and so is msgid_plural
PoItem(key, msgdetails, sourcePath) ==
  [msgid |-> ItemMsgid(key, msgdetails),
   msgid_plural |-> IF "plural" \in DOMAIN msgdetails.props
                      THEN <<msgdetails.props["plural"]>> ELSE <<>>,
   references |-> IF sourcePath # <<>>
                    THEN [i \in DOMAIN msgdetails.line |->
                            Reference(sourcePath[1], msgdetails.line[i])]
                    ELSE <<>>]

\* the list of PO items, in the order of the keys; err is what parse threw
Parser_parseToPoMessages(keywordSpec, text, sourcePath) ==
  LET parserOutput == Parser_parse(keywordSpec, text)
  IN [err |-> parserOutput.err,
      items |-> IF parserOutput.err # NoError THEN <<>>
                ELSE [i \in DOMAIN parserOutput.keys |->
                        PoItem(parserOutput.keys[i],
                               parserOutput.rec[parserOutput.keys[i]], sourcePath)]]

----------------------------------------------------------------------------
(* Parser.prototype.parseFilesGlob *)

\* The collation weight of a character.  The references of the model are made
\* of ':', digits and upper-case letters; localeCompare orders punctuation
\* before digits before letters, and over these characters it compares two
\* strings character by character.
CollationWeight(ch) ==
  IF ch = 58 THEN 0 ELSE IF ch \in 48..57 THEN ch - 47 ELSE ch

\* a.localeCompare(b): negative, zero or positive
RECURSIVE localeCompare(_, _)
localeCompare(a, b) ==
  IF a = <<>> /\ b = <<>> THEN 0
  ELSE IF a = <<>> THEN -1
  ELSE IF b = <<>> THEN 1
  ELSE IF CollationWeight(Head(a)) < CollationWeight(Head(b)) THEN -1
  ELSE IF CollationWeight(Head(a)) > CollationWeight(Head(b)) THEN 1
  ELSE localeCompare(Tail(a), Tail(b))

\* one reference put into a sorted list, after the ones that do not follow it
RECURSIVE Insert(_, _)
Insert(sorted, ref) ==
  IF sorted = <<>> THEN <<ref>>
  ELSE IF localeCompare(ref, Head(sorted)) < 0 THEN <<ref>> \o sorted
  ELSE <<Head(sorted)>> \o Insert(Tail(sorted), ref)

RECURSIVE InsertAll(_, _)
InsertAll(sorted, refs) ==
  IF refs = <<>> THEN sorted ELSE InsertAll(Insert(sorted, Head(refs)), Tail(refs))

\* mutant: the joined references are left as they were joined
Unsorted(refs) == refs

\* refs.sort(function(a,b) { return a.localeCompare(b) })
Sort(refs) == InsertAll(<<>>, refs)

NoItems == [k \in {} |-> [msgid |-> EmptyStr, msgid_plural |-> <<>>, references |-> <<>>]]
\* the object `messages`: keys in the order they were first stored
NoMessages == [keys |-> <<>>, item |-> NoItems]

\* the body of fileMessages.map: join references and sort them
Merge(msgsByid, message) ==
  IF message.msgid \notin DOMAIN msgsByid.item
    THEN [keys |-> Append(msgsByid.keys, message.msgid),
          item |-> [k \in DOMAIN msgsByid.item \cup {message.msgid} |->
                      IF k = message.msgid THEN message ELSE msgsByid.item[k]]]
    ELSE [msgsByid EXCEPT !.item[message.msgid].references =
            Sort(msgsByid.item[message.msgid].references \o message.references)]

RECURSIVE MergeAll(_, _)
MergeAll(msgsByid, fileMessages) ==
  IF fileMessages = <<>> THEN msgsByid
  ELSE MergeAll(Merge(msgsByid, Head(fileMessages)), Tail(fileMessages))

\* cb(er, result): result is optional (null)
Call(er, res) == [er |-> er, result |-> res]

\* new TypeError: files is undefined when glob failed
TypeError == <<[message |-> "Cannot read property 'map' of undefined", msgid |-> EmptyStr]>>

\* longest statement list of a file
MaxPerFile == 2
\* the lines without an invocation that may precede a statement of a file
MaxGap == 8

FileNames == {StrA, StrB}

BlankLines(n) == ContentStatement([i \in 1..n |-> 10])

\* {{gettext "A"}} or {{pgettext "A" "A"}} after no or MaxGap blank lines
FileStatements ==
  {<<BlankLines(gap), st>> :
     gap \in {0, MaxGap},
     st \in {Inner, Mustache("pgettext", <<StringLiteral(StrA), StringLiteral(StrA)>>, <<>>)}}

RECURSIVE Concat(_)
Concat(seqs) == IF seqs = <<>> THEN <<>> ELSE Head(seqs) \o Concat(Tail(seqs))

\* the templates of the files; the last is one whose markup makes parse throw
FileTemplates ==
  {Concat(ss) : ss \in SeqsUpTo(FileStatements, MaxPerFile)}
  \cup {<<Mustache("ngettext", <<StringLiteral(StrA)>>, <<>>)>>}

\* the lists without a repetition of the elements of a set
RECURSIVE Orders(_)
Orders(S) ==
  IF S = {} THEN {<<>>}
  ELSE UNION {{<<x>> \o rest : rest \in Orders(S \ {x})} : x \in S}

GlobIdle ==
  /\ disk = <<>>
  /\ globState = "idle"
  /\ globFailed = FALSE
  /\ matched = <<>>
  /\ pending = <<>>
  /\ readFiles = <<>>
  /\ messages = NoMessages
  /\ calls = <<>>
  /\ thrown = NoError

InitGlob ==
  /\ disk \in [FileNames -> FileTemplates]
  /\ globState = "called"
  /\ globFailed = FALSE
  /\ matched = <<>>
  /\ pending = <<>>
  /\ readFiles = <<>>
  /\ messages = NoMessages
  /\ calls = <<>>
  /\ thrown = NoError

\* glob calls back with an error and no files: cb(er, null) is called, and the
\* callback goes on to files.map, which throws as files is undefined.
GlobFails ==
  /\ globState = "called"
  /\ globFailed' = TRUE
  /\ calls' = Append(calls, Call(TRUE, <<>>))
  /\ thrown' = TypeError
  /\ globState' = "done"
  /\ UNCHANGED <<disk, matched, pending, readFiles, messages>>
  /\ UNCHANGED <<ctorVars, parseVars>>

\* glob calls back with the files the pattern matches, in some order
GlobMatches ==
  /\ globState = "called"
  /\ \E found \in SUBSET DOMAIN disk : \E files \in Orders(found) :
       /\ matched' = files
       /\ pending' = files
  /\ globState' = "mapping"
  /\ UNCHANGED <<disk, globFailed, readFiles, messages, calls, thrown>>
  /\ UNCHANGED <<ctorVars, parseVars>>

\* One turn of files.map: the file is read and parsed, and its messages are
\* merged; an error of parse leaves the callback of glob, and cb is not called.
MapFile ==
  /\ globState = "mapping"
  /\ pending # <<>>
  /\ LET file == Head(pending)
         contents == disk[file]
         fileMessages == Parser_parseToPoMessages(parserSpec, contents, <<file>>)
     IN /\ readFiles' = Append(readFiles, file)
        /\ IF fileMessages.err # NoError
             THEN /\ thrown' = fileMessages.err
                  /\ globState' = "done"
                  /\ UNCHANGED <<pending, messages>>
             ELSE /\ messages' = MergeAll(messages, fileMessages.items)
                  /\ pending' = Tail(pending)
                  /\ UNCHANGED <<thrown, globState>>
  /\ UNCHANGED <<disk, globFailed, matched, calls>>
  /\ UNCHANGED <<ctorVars, parseVars>>

\* the end of the callback: output lists the items, and cb(null, output)
Complete ==
  /\ globState = "mapping"
  /\ pending = <<>>
  /\ LET output == [i \in DOMAIN messages.keys |-> messages.item[messages.keys[i]]]
     IN calls' = Append(calls, Call(FALSE, <<output>>))
  /\ globState' = "done"
  /\ UNCHANGED <<disk, globFailed, matched, pending, readFiles, messages, thrown>>
  /\ UNCHANGED <<ctorVars, parseVars>>

\* glob's callback, step by step
parseFilesGlob == GlobFails \/ GlobMatches \/ MapFile \/ Complete

----------------------------------------------------------------------------
(* Claims about the constructor *)

\* an optional plural position
OptionalPositions == {<<>>} \cup {<<q>> : q \in 0..MaxPos}

\* {msgid: p} or {msgid: p, msgid_plural: q}
CanonicalForm(p, q) ==
  Obj([r \in {"msgid"} \cup (IF q = <<>> THEN {} ELSE {"msgid_plural"}) |->
         IF r = "msgid" THEN Num(p) ELSE Num(q[1])])

\* [p] or [p, q]
PositionsForm(p, q) ==
  Arr(<<Num(p)>> \o (IF q = <<>> THEN <<>> ELSE <<Num(q[1])>>))

\* the arrays that list 'msgid' at index p and 'msgid_plural' at index q and
\* end there, every other index holding one of the fillers
NamesForms(p, q, fillers) ==
  LET last == IF q # <<>> /\ q[1] > p THEN q[1] ELSE p
      wanted(i) == IF i = p + 1 THEN {Str("msgid")}
                   ELSE IF q # <<>> /\ i = q[1] + 1 THEN {Str("msgid_plural")}
                   ELSE fillers
  IN IF q # <<>> /\ q[1] = p THEN {}
     ELSE {Arr(e) : e \in {f \in SeqsUpTo(Elements, MaxLen) :
                              /\ Len(f) = last + 1
                              /\ \A i \in DOMAIN f : f[i] \in wanted(i)}}

\* the three shapes of one specification give one RoleMap, the unoccupied
\* indices of the array of role names holding the fillers
SameRoleMap(fillers) ==
  (ctorState = "constructed" /\ argBefore # <<>>) =>
    \A kw1 \in Keywords : \A kw2 \in Keywords :
      \A p \in 0..MaxPos : \A q \in OptionalPositions :
        (/\ argBefore[1][kw1] = CanonicalForm(p, q)
         /\ \/ argBefore[1][kw2] = PositionsForm(p, q)
            \/ argBefore[1][kw2] \in NamesForms(p, q, fillers))
        => /\ thisKeywordSpec[1][kw1] = CanonicalForm(p, q)
           /\ thisKeywordSpec[1][kw2] = CanonicalForm(p, q)

\* C7 as stated: the canonical form {msgid: p, msgid_plural: q}, the array of
\* role names with the roles at the indices p and q, and the array of positions
\* [p, q] give the same RoleMap for all positions; the indices of the array
\* below p and q that carry no role are holes or name another argument.
C7_ShapesGiveSameRoleMap == SameRoleMap({Hole, Str("domain")})

\* C7 as amended: they give the same RoleMap when the indices of the array of
\* role names that carry no role are holes of the array (or there are none);
\* an element there is taken for a role name and adds an entry to the RoleMap.
C7_ShapesGiveSameRoleMapWithoutFillers == SameRoleMap({Hole})

\* {msgid: 1} beside [ , 'msgid'] or [1], constructed
C7_Witness ==
  /\ ctorState = "constructed"
  /\ argBefore # <<>>
  /\ argBefore[1]["_"] = CanonicalForm(1, <<>>)
  /\ argBefore[1]["ngettext"] \in {PositionsForm(1, <<>>), Arr(<<Hole, Str("msgid")>>)}
  /\ thisKeywordSpec[1]["ngettext"] = CanonicalForm(1, <<>>)

\* C8: the caller's specification holds the same entries after the
\* construction, whether it succeeded or threw, as before.
C8_ArgumentUnchanged ==
  ctorState \in {"constructed", "threw"} => arg = argBefore

----------------------------------------------------------------------------
(* Claims about parseFilesGlob *)

\* glob's callback ran to its end and cb got the merged list
Merged ==
  /\ globState = "done"
  /\ ~globFailed
  /\ thrown = NoError
  /\ Len(calls) = 1
  /\ calls[1].result # <<>>

\* the list cb got
Output == calls[1].result[1]

\* C4: cb is invoked exactly once per call, with (error, null) when the
\* resolution failed and with (null, list) otherwise; after a resolution error
\* no file is read, no entry is produced and nothing is thrown.
C4_CallbackOnceNothingThrown ==
  globState = "done" =>
    /\ Len(calls) = 1
    /\ IF globFailed
         THEN /\ calls[1] = Call(TRUE, <<>>)
              /\ readFiles = <<>>
              /\ messages = NoMessages
              /\ thrown = NoError
         ELSE /\ calls[1].er = FALSE
              /\ calls[1].result # <<>>

\* the candidates of one file, as parseToPoMessages lists them
Candidates(file) ==
  Parser_parseToPoMessages(parserSpec, disk[file], <<file>>).items

\* the matched files that have a candidate named msgid
FilesWith(msgid) ==
  {f \in Range(matched) : \E i \in DOMAIN Candidates(f) : Candidates(f)[i].msgid = msgid}

\* the references of the candidate named msgid of a file
CandidateRefs(file, msgid) ==
  LET i == CHOOSE j \in DOMAIN Candidates(file) : Candidates(file)[j].msgid = msgid
  IN Candidates(file)[i].references

Occurrences(seq, x) == Cardinality({i \in DOMAIN seq : seq[i] = x})

\* a precedes b, or is b, in the lexicographic order of the collation weights
RECURSIVE LexicographicLeq(_, _)
LexicographicLeq(a, b) ==
  \/ a = <<>>
  \/ /\ b # <<>>
     /\ \/ CollationWeight(Head(a)) < CollationWeight(Head(b))
        \/ /\ CollationWeight(Head(a)) = CollationWeight(Head(b))
           /\ LexicographicLeq(Tail(a), Tail(b))

IsSorted(refs) ==
  \A i \in DOMAIN refs : \A j \in DOMAIN refs :
    i < j => LexicographicLeq(refs[i], refs[j])

\* refs holds every reference the files have for msgid, as often as they do
HoldsAllRefs(refs, msgid) ==
  LET files == FilesWith(msgid)
      all == UNION {Range(CandidateRefs(f, msgid)) : f \in files}
  IN /\ Range(refs) = all
     /\ \A ref \in all :
          \E f \in files :
            /\ Occurrences(refs, ref) = Occurrences(CandidateRefs(f, msgid), ref)
            /\ \A g \in files \ {f} : Occurrences(CandidateRefs(g, msgid), ref) = 0

\* C5: each merged entry ends with a reference list that the set of files
\* fixes, whatever the order the files were processed in: for an id found in
\* more than one file the references of all the files, sorted
\* lexicographically; for an id of one file that file's references.
C5_ReferencesIndependentOfOrder ==
  Merged =>
    \A i \in DOMAIN Output :
      LET files == FilesWith(Output[i].msgid)
      IN /\ files # {}
         /\ HoldsAllRefs(Output[i].references, Output[i].msgid)
         /\ Cardinality(files) > 1 => IsSorted(Output[i].references)
         /\ \A f \in files :
              files = {f} => Output[i].references = CandidateRefs(f, Output[i].msgid)

\* file B, processed first, holds "A" after the blank lines and file A holds it
\* at line 1: the entry lists A's reference before B's
C5_Witness ==
  /\ Merged
  /\ matched = <<StrB, StrA>>
  /\ \E i \in DOMAIN Output :
       Output[i].references = <<Reference(StrA, 1), Reference(StrB, MaxGap + 1)>>

\* the entry of the output that holds both references
MergedTogether(ref1, ref2) ==
  \E i \in DOMAIN Output :
    ref1 \in Range(Output[i].references) /\ ref2 \in Range(Output[i].references)

\* two matched invocations of two different matched files
InDifferentFiles(f1, n1, f2, n2) ==
  /\ f1 \in Range(matched) /\ f2 \in Range(matched) /\ f1 # f2
  /\ n1 \in InvocationsIn(disk[f1]) /\ n2 \in InvocationsIn(disk[f2])
  /\ Matched(n1) /\ Matched(n2)

\* C6 as stated: candidates are merged by message id alone: two candidates of
\* different files that share a message id and differ in context end in one
\* entry that holds the references of both.
C6_MergedByIdAlone ==
  Merged =>
    \A f1 \in FileNames : \A f2 \in FileNames :
      \A n1 \in InvocationsIn(disk[f1]) : \A n2 \in InvocationsIn(disk[f2]) :
        (/\ InDifferentFiles(f1, n1, f2, n2)
         /\ MsgidOf(n1) = MsgidOf(n2)
         /\ ContextOf(n1) # ContextOf(n2))
        => MergedTogether(Reference(f1, n1.line), Reference(f2, n2.line))

\* C6 as amended: candidates are merged by the msgid of the PO item, which is
\* the key of the record (context, delimiter and message id when the context
\* is not empty): two candidates of different files end in one entry exactly
\* when their keys are equal, so the same id under different contexts stays
\* two entries.
C6_MergedByKey ==
  Merged =>
    \A f1 \in FileNames : \A f2 \in FileNames :
      \A n1 \in InvocationsIn(disk[f1]) : \A n2 \in InvocationsIn(disk[f2]) :
        InDifferentFiles(f1, n1, f2, n2)
        => (MergedTogether(Reference(f1, n1.line), Reference(f2, n2.line))
            <=> Parser_messageToKey(MsgidOf(n1), ContextOf(n1))
                  = Parser_messageToKey(MsgidOf(n2), ContextOf(n2)))

\* "A" without a context in one file and under the context "A" in the other:
\* two entries
C6_Witness ==
  /\ Merged
  /\ \E f1 \in FileNames : \E f2 \in FileNames :
       \E n1 \in InvocationsIn(disk[f1]) : \E n2 \in InvocationsIn(disk[f2]) :
         /\ InDifferentFiles(f1, n1, f2, n2)
         /\ MsgidOf(n1) = MsgidOf(n2)
         /\ ContextOf(n1) # ContextOf(n2)
         /\ ~MergedTogether(Reference(f1, n1.line), Reference(f2, n2.line))
         /\ Len(Output) = 2

----------------------------------------------------------------------------
(* Specifications *)

\* a caller constructs a Parser
CtorStart == InitCtor /\ ParseIdle /\ GlobIdle
SpecCtor == CtorStart /\ [][Parser]_vars

\* a caller parses a template
ParseStart == InitParse /\ CtorIdle /\ GlobIdle
SpecParse == ParseStart /\ [][Parse]_vars

\* a caller extracts the messages of the files a pattern matches
GlobStart == InitGlob /\ CtorIdle /\ ParseIdle
SpecGlob == GlobStart /\ [][parseFilesGlob]_vars

====
